---- MODULE Spec2Model ----
(***************************************************************************)
(* Model of the conversation page of the email system (src/app/page.tsx):  *)
(* the React state of the Home component, the send-all batch               *)
(* (handleSendAllMessages), the single send (handleSendEmail), message     *)
(* generation and the participant buttons.                                 *)
(*                                                                         *)
(* One action is one synchronous run of JavaScript: a handler from the     *)
(* click to its first await, or a continuation from the settlement of an   *)
(* awaited promise to the next await.  Sequences are 1-based, so list      *)
(* position i of the source is position i + 1 here.                        *)
(*                                                                         *)
(* Specifications: Spec (send-all batch and single send through the        *)
(* buttons), SpecSendOne (handleSendEmail called directly), SpecGenerate   *)
(* (message generation), SpecEdit (conversation creation and settings),    *)
(* SpecAccounts (account dialogs), SpecParticipants (participant buttons), *)
(* SpecConcurrent (one send operation with generation, Clear and tab       *)
(* changes beside it), SpecClicks (several send operations in a session),  *)
(* SpecFair (the batch under fair timers and dispatch calls).              *)
(***************************************************************************)
EXTENDS Integers, Sequences, FiniteSets, TLC

\* ---------------------------------------------------------------- bounds
MaxMsgs == 3          \* messages a conversation holds at most
MaxTime == 60000      \* Tick advances the clock only while it is below this value
MaxDrift == 1         \* clock advance between two Date.now() of the schedule pass
MaxSends == 1         \* send operations (batches and single sends) started in a session
MaxClicks == 2        \* send operations started in a session with other work going on
MaxConvs == 2         \* conversation tabs

\* ------------------------------------------------------ program constants
MsPerMinute == 60000
CountdownGrace == 5000
CountdownPeriod == 1000

NoTime == -1          \* scheduledSendTime: undefined
NoMessageId == 0      \* emailMessageId / previousMessageId: undefined
NoConversation == 0   \* activeConversationId: null

NoAccount == [id |-> 0, name |-> "", email |-> "", emailConfig |-> FALSE]

\* The account store as loaded: X and Y have SMTP settings, Z has none.
StoredAccounts ==
  << [id |-> 1, name |-> "X", email |-> "x@m", emailConfig |-> TRUE],
     [id |-> 2, name |-> "Y", email |-> "y@m", emailConfig |-> TRUE],
     [id |-> 3, name |-> "Z", email |-> "z@m", emailConfig |-> FALSE] >>

\* Delay settings (minutes) of the stored conversation.
DelayPairs == { <<1, 1>>, <<1, 2>> }

VARIABLES
  accounts,              \* Account[]
  conversations,         \* Conversation[]
  activeConversationId,  \* id of the open conversation tab, or NoConversation
  now,                   \* the wall clock, in milliseconds
  loading,               \* a generation is in progress
  sendingEmail,          \* a send operation is in progress
  error,                 \* error banner ("" when null)
  success,               \* success banner
  send,                  \* locals of the running send handler
  gen,                   \* locals of the running generation handler
  dispatchLog,           \* calls made to /api/send-email by the last send operation
  started                \* number of send operations started so far

vars == << accounts, conversations, activeConversationId, now,
           loading, sendingEmail, error, success, send, gen, dispatchLog,
           started >>

\* ------------------------------------------------------------- sequences
Range(s) == { s[k] : k \in DOMAIN s }

RECURSIVE SelectSeq2(_, _)
SelectSeq2(s, keep) ==
  IF s = << >> THEN << >>
  ELSE IF Head(s) \in keep THEN << Head(s) >> \o SelectSeq2(Tail(s), keep)
       ELSE SelectSeq2(Tail(s), keep)

\* Array.prototype.find on accounts by id; NoAccount when none matches.
RECURSIVE FindAccount(_, _)
FindAccount(accs, id) ==
  IF accs = << >> THEN NoAccount
  ELSE IF Head(accs).id = id THEN Head(accs)
       ELSE FindAccount(Tail(accs), id)

\* accs.filter(acc => acc.id !== id)
FilterOutId(accs, id) == SelectSeq2(accs, { a \in Range(accs) : a.id # id })

\* ------------------------------------------------------ the active conversation
ConvIndex(convs, id) ==
  IF \E k \in DOMAIN convs : convs[k].id = id
  THEN CHOOSE k \in DOMAIN convs : convs[k].id = id /\ \A j \in 1..(k-1) : convs[j].id # id
  ELSE 0

HasActive == activeConversationId # NoConversation
             /\ ConvIndex(conversations, activeConversationId) # 0

ActiveConv == conversations[ConvIndex(conversations, activeConversationId)]

\* Mutant of SetMessages: the conversation is looked up by the tab that is open
\* when the update is applied.
SetMessagesOfOpenTab(convs, id, msgsOf) ==
  [ k \in DOMAIN convs |->
      IF activeConversationId # NoConversation /\ convs[k].id = activeConversationId
      THEN [ convs[k] EXCEPT !.messages = msgsOf[k] ]
      ELSE convs[k] ]

\* setConversations(convs => convs.map(c => c.id === id ? updater(c) : c)) with
\* updater replacing field messages
SetMessages(convs, id, msgsOf) ==
  [ k \in DOMAIN convs |->
      IF id # NoConversation /\ convs[k].id = id
      THEN [ convs[k] EXCEPT !.messages = msgsOf[k] ]
      ELSE convs[k] ]

\* Mutant of MarkSent: the list is rebuilt from the handler's own copy of the
\* messages, not from the conversation as it is now.
MarkSentStale(c, id, tid) ==
  LET copy == IF send.kind = "batch" THEN send.messagesWithSchedule ELSE send.conv.messages
  IN [ k \in DOMAIN copy |->
         IF copy[k].id = id
         THEN [ copy[k] EXCEPT !.sent = TRUE, !.scheduledSendTime = NoTime,
                               !.emailMessageId = tid ]
         ELSE copy[k] ]

\* Mutant of MarkSent: the scheduled time is left on the message.
MarkSentKeepSchedule(c, id, tid) ==
  [ k \in DOMAIN c.messages |->
      IF c.messages[k].id = id
      THEN [ c.messages[k] EXCEPT !.sent = TRUE, !.emailMessageId = tid ]
      ELSE c.messages[k] ]

\* c.messages.map(m => m.id === id ? {...m, sent: true, scheduledSendTime: undefined,
\*                                   emailMessageId: tid} : m)
MarkSent(c, id, tid) ==
  [ k \in DOMAIN c.messages |->
      IF c.messages[k].id = id
      THEN [ c.messages[k] EXCEPT !.sent = TRUE, !.scheduledSendTime = NoTime,
                                  !.emailMessageId = tid ]
      ELSE c.messages[k] ]

\* Mutant of MarkFailed: the failed message is filtered out of the list.
MarkFailedDrop(c, id) ==
  SelectSeq2(c.messages, { m \in Range(c.messages) : m.id # id })

\* Mutant of MarkFailed: the list is rebuilt from the batch's own copy of the
\* messages, not from the conversation as it is now.
MarkFailedStale(c, id) ==
  [ k \in DOMAIN send.messagesWithSchedule |->
      IF send.messagesWithSchedule[k].id = id
      THEN [ send.messagesWithSchedule[k] EXCEPT !.scheduledSendTime = NoTime ]
      ELSE send.messagesWithSchedule[k] ]

\* c.messages.map(m => m.id === id ? {...m, scheduledSendTime: undefined} : m)
MarkFailed(c, id) ==
  [ k \in DOMAIN c.messages |->
      IF c.messages[k].id = id
      THEN [ c.messages[k] EXCEPT !.scheduledSendTime = NoTime ]
      ELSE c.messages[k] ]

\* ------------------------------------------------------------- banners
NoBanner == [kind |-> "none", sentCount |-> 0, totalCount |-> 0, skipped |-> << >>]
IdleSend == [stage |-> "idle"]
IdleGen == [stage |-> "idle"]


\* ------------------------------------------------------------ scheduling
\* Values of Math.floor(Math.random() * n) that the model draws: the least and
\* the greatest of 0 .. n-1.
RandomFloor(n) == { 0, n - 1 }

\* randomDelay of one message: Math.floor(Math.random() * (maxDelayMs - minDelayMs + 1)) + minDelayMs
RandomDelays(conv) ==
  LET minDelayMs == conv.minDelayMinutes * MsPerMinute
      maxDelayMs == conv.maxDelayMinutes * MsPerMinute
  IN { v + minDelayMs : v \in RandomFloor(maxDelayMs - minDelayMs + 1) }

\* cumulativeDelay after the pass has handled position i (delays is defined on 2..n)
RECURSIVE CumulativeDelay(_, _)
CumulativeDelay(delays, i) ==
  IF i < 2 THEN 0 ELSE delays[i] + CumulativeDelay(delays, i - 1)

\* The Date.now() read at position i: the clock at the start of the pass plus
\* what it advanced while the pass ran.
RECURSIVE ClockRead(_, _, _)
ClockRead(t0, drift, i) ==
  IF i < 2 THEN t0 ELSE drift[i] + ClockRead(t0, drift, i - 1)

\* conv.messages.map((message, i) => ...) of handleSendAllMessages
MessagesWithSchedule(conv, t0, drift, delays) ==
  [ i \in DOMAIN conv.messages |->
      IF i = 1
      THEN [ conv.messages[i] EXCEPT !.scheduledSendTime = t0 ]
      ELSE [ conv.messages[i] EXCEPT
               !.scheduledSendTime = ClockRead(t0, drift, i) + CumulativeDelay(delays, i) ] ]

\* [conv.selectedAccount, ...conv.otherAccounts].filter(Boolean)
AllParticipants(conv) ==
  (IF conv.selectedAccount = NoAccount THEN << >> ELSE << conv.selectedAccount >>)
    \o conv.otherAccounts

\* conv.emailSubject || `Conversation: ${conv.name}`
ConversationSubject(conv) ==
  IF conv.emailSubject # "" THEN [re |-> FALSE, text |-> conv.emailSubject]
  ELSE [re |-> FALSE, text |-> "Conversation: " \o conv.name]

\* Mutant of SendEmailInternal: the subject is never given the reply marker.
SendEmailInternalNoMarker(message, senderAccount, recipients, conversationSubject, previousMessageId, idx, t) ==
  [ idx |-> idx,
    waitFrom |-> NoTime,
    id |-> message.id,
    from |-> senderAccount.id,
    to |-> [ k \in DOMAIN recipients |-> recipients[k].id ],
    subject |-> conversationSubject,
    previousMessageId |-> previousMessageId,
    at |-> t,
    scheduledSendTime |-> message.scheduledSendTime,
    result |-> "pending",
    messageId |-> NoMessageId ]

\* The request sendEmailInternal posts to /api/send-email; subject.re tells
\* whether the subject text is prefixed with "Re: ".
SendEmailInternal(message, senderAccount, recipients, conversationSubject, previousMessageId, idx, t) ==
  [ idx |-> idx,
    waitFrom |-> NoTime,
    id |-> message.id,
    from |-> senderAccount.id,
    to |-> [ k \in DOMAIN recipients |-> recipients[k].id ],
    subject |-> IF previousMessageId # NoMessageId
                THEN [conversationSubject EXCEPT !.re = TRUE]
                ELSE conversationSubject,
    previousMessageId |-> previousMessageId,
    at |-> t,
    scheduledSendTime |-> message.scheduledSendTime,
    result |-> "pending",
    messageId |-> NoMessageId ]

\* ------------------------------------------------- the send-all loop body
\* Mutant of SkipAccount: the name is pushed without the includes() test.
SkipAccountAlways(skipped, m) == Append(skipped, m.accountName)

\* skippedAccounts after the credentials check of message m
SkipAccount(skipped, m) ==
  IF m.accountName \in Range(skipped) THEN skipped ELSE Append(skipped, m.accountName)

\* The sender of message m can dispatch: it is a participant with SMTP settings.
CanDispatch(b, m) ==
  LET senderAccount == FindAccount(b.allParticipants, m.accountId)
  IN senderAccount # NoAccount /\ senderAccount.emailConfig

\* Mutant of MustWait: the comparison of waitTime is inverted.
MustWaitInverted(m, t) == m.scheduledSendTime # NoTime /\ m.scheduledSendTime - t < 0

\* const waitTime = message.scheduledSendTime.getTime() - Date.now(); waitTime > 0
MustWait(m, t) == m.scheduledSendTime # NoTime /\ m.scheduledSendTime - t > 0

\* allParticipants.filter(acc => acc.id !== message.accountId)
Recipients(b, m) == FilterOutId(b.allParticipants, m.accountId)

\* The for loop of handleSendAllMessages from position b.i up to its next await
\* (the timer or the dispatch call) or to the end of the list.  t is the clock.
\* Mutant of OnSkipped: a skip drops the held Message-ID.
OnSkippedReset(b, m) ==
  [ b EXCEPT !.skippedAccounts = SkipAccount(@, m), !.outcome[b.i] = "skipped",
             !.i = @ + 1, !.lastMessageId = NoMessageId ]

\* The locals after the credentials check has skipped message m at position b.i.
OnSkipped(b, m) ==
  [ b EXCEPT !.skippedAccounts = SkipAccount(@, m), !.outcome[b.i] = "skipped",
             !.i = @ + 1 ]

\* The locals after position b.i was passed over for having no recipients.
OnNoRecipients(b) ==
  [ b EXCEPT !.outcome[b.i] = "norecipients", !.i = @ + 1, !.waitFrom = NoTime ]

\* The locals after the dispatch call of position b.i returned transport id tid:
\* sentCount++; lastMessageId = result.messageId.
OnDispatched(b, tid) ==
  [ b EXCEPT !.sentCount = @ + 1, !.lastMessageId = tid, !.outcome[b.i] = "sent",
             !.i = @ + 1, !.waitFrom = NoTime, !.stage = "loop" ]

\* Mutant of OnDispatchFailed: the failure drops the held Message-ID.
OnDispatchFailedReset(b) ==
  [ b EXCEPT !.outcome[b.i] = "failed", !.i = @ + 1, !.waitFrom = NoTime,
             !.stage = "loop", !.lastMessageId = NoMessageId ]

\* Mutant of OnDispatchFailed: the failure leaves the loop (no inner catch).
OnDispatchFailedAbort(b) ==
  [ b EXCEPT !.outcome[b.i] = "failed", !.i = Len(b.messagesWithSchedule) + 1,
             !.waitFrom = NoTime, !.stage = "loop" ]

\* Mutant of OnDispatchFailed: sentCount is incremented before the call returns.
OnDispatchFailedCounted(b) ==
  [ b EXCEPT !.outcome[b.i] = "failed", !.i = @ + 1, !.waitFrom = NoTime,
             !.stage = "loop", !.sentCount = @ + 1 ]

\* Mutant of OnDispatchFailed: the loop stays at the position and tries it again.
OnDispatchFailedRetry(b) ==
  [ b EXCEPT !.outcome[b.i] = "failed", !.waitFrom = NoTime, !.stage = "loop" ]

\* The locals after the dispatch call of position b.i threw (the inner catch).
OnDispatchFailed(b) ==
  [ b EXCEPT !.outcome[b.i] = "failed", !.i = @ + 1, !.waitFrom = NoTime,
             !.stage = "loop" ]

RECURSIVE RunLoop(_, _)
RunLoop(b, t) ==
  IF b.i > Len(b.messagesWithSchedule) THEN [b EXCEPT !.stage = "finish"]
  ELSE LET m == b.messagesWithSchedule[b.i] IN
       IF ~CanDispatch(b, m) THEN RunLoop(OnSkipped(b, m), t)
       ELSE IF MustWait(m, t) THEN [b EXCEPT !.stage = "waiting", !.waitFrom = t]
       ELSE IF Recipients(b, m) = << >> THEN RunLoop(OnNoRecipients(b), t)
            ELSE [b EXCEPT !.stage = "dispatching"]

\* Mutant of AfterWait: the loop stays in its wait.
AfterWaitStill(b, t) == b

\* The loop body after the timer of position b.i has fired.
AfterWait(b, t) ==
  IF Recipients(b, b.messagesWithSchedule[b.i]) = << >>
  THEN RunLoop(OnNoRecipients(b), t)
  ELSE [b EXCEPT !.stage = "dispatching"]

\* `Sent ${sentCount} out of ${conv.messages.length} messages` and the skipped names
BatchBanner(b) ==
  [kind |-> "batch", sentCount |-> b.sentCount, totalCount |-> Len(b.conv.messages),
   skipped |-> b.skippedAccounts]

\* State after a synchronous run of the batch that ended in stage b.stage; log
\* is the call log and banner the success banner before the run, t the clock.
Continue(b, log, banner, t) ==
  LET m == b.messagesWithSchedule[b.i] IN
  /\ send' = IF b.stage = "finish" THEN [b EXCEPT !.stage = "done"] ELSE b
  /\ sendingEmail' = (b.stage # "finish")
  /\ success' = IF b.stage = "finish" THEN BatchBanner(b) ELSE banner
  /\ dispatchLog' =
       IF b.stage = "dispatching"
       THEN Append(log, [ SendEmailInternal(m, FindAccount(b.allParticipants, m.accountId),
                                            Recipients(b, m), ConversationSubject(b.conv),
                                            b.lastMessageId, b.i, t)
                          EXCEPT !.waitFrom = b.waitFrom ])
       ELSE log

\* Mutant of WriteSchedule: the schedule is not written before the loop.
WriteScheduleNot(convs, id, mws) == convs

\* updateActiveConversation(c => ({...c, messages: messagesWithSchedule}))
WriteSchedule(convs, id, mws) ==
  SetMessages(convs, id, [ j \in DOMAIN convs |-> mws ])

\* handleSendAllMessages, from its call to its first await: the early returns,
\* the schedule pass, the schedule write and the loop up to its first await.
HandleSendAllMessages ==
  /\ HasActive
  /\ Len(ActiveConv.messages) > 0
  /\ LET conv == ActiveConv
         n == Len(conv.messages)
     IN \E drift \in [2..n -> 0..MaxDrift], delays \in [2..n -> RandomDelays(conv)] :
          LET mws == MessagesWithSchedule(conv, now, drift, delays)
              tEnd == ClockRead(now, drift, n)
              b0 == [ kind |-> "batch", stage |-> "loop",
                      convId |-> activeConversationId, conv |-> conv,
                      allParticipants |-> AllParticipants(conv),
                      messagesWithSchedule |-> mws, startedAt |-> now,
                      i |-> 1, sentCount |-> 0, skippedAccounts |-> << >>,
                      lastMessageId |-> NoMessageId, waitFrom |-> NoTime,
                      outcome |-> [ k \in 1..n |-> "pending" ] ]
          IN /\ now' = tEnd
             /\ conversations' = WriteSchedule(conversations, activeConversationId, mws)
             /\ Continue(RunLoop(b0, tEnd), << >>, NoBanner, tEnd)
  /\ error' = ""
  /\ UNCHANGED << accounts, activeConversationId, loading, gen >>

\* Mutant of SendAllDisabled: the button stays enabled while a send is in progress.
SendAllDisabledLax(conv) == Len(conv.messages) = 0

\* disabled={sendingEmail || conv.messages.length === 0} of "Send All Messages"
SendAllDisabled(conv) == sendingEmail \/ Len(conv.messages) = 0

\* A click on "Send All Messages": handleSendAllMessages to its first await.
SendAllMessages ==
  /\ HasActive
  /\ ~SendAllDisabled(ActiveConv)
  /\ started < MaxSends
  /\ started' = started + 1
  /\ HandleSendAllMessages

\* Time passes until the timer of the awaited setTimeout(resolve, waitTime) fires,
\* no earlier than the scheduled time: the batch goes on with the recipients
\* check and the dispatch call.
TimerAt(t, scheduledSendTime) == IF t >= scheduledSendTime THEN t ELSE scheduledSendTime

TimerFired ==
  /\ send.stage = "waiting"
  /\ now' = TimerAt(now, send.messagesWithSchedule[send.i].scheduledSendTime)
  /\ Continue(AfterWait(send, now'), dispatchLog, success, now')
  /\ UNCHANGED << started, accounts, conversations, activeConversationId,
                  loading, error, gen >>

\* The last entry of the call log, completed with the outcome of the call.
Settle(log, result, tid) ==
  [ log EXCEPT ![Len(log)] = [ @ EXCEPT !.result = result, !.messageId = tid ] ]

\* The Message-ID the mail transport assigns to the next mail it accepts: an id
\* no earlier mail has (ids are compared for equality only).
RECURSIVE MaxOf(_)
MaxOf(S) == IF S = {} THEN 0
            ELSE LET x == CHOOSE y \in S : TRUE
                     r == MaxOf(S \ {x})
                 IN IF x > r THEN x ELSE r

TransportMessageId ==
  1 + MaxOf(UNION { { m.emailMessageId : m \in Range(conversations[c].messages) } :
                    c \in DOMAIN conversations }
            \cup { call.messageId : call \in Range(dispatchLog) })

\* The dispatch call of the batch returns the transport id of the mail.
SendAllDispatched ==
  /\ send.stage = "dispatching" /\ send.kind = "batch"
  /\ LET m == send.messagesWithSchedule[send.i]
         tid == TransportMessageId
         b1 == OnDispatched(send, tid)
     IN /\ conversations' = SetMessages(conversations, send.convId,
                                        [j \in DOMAIN conversations |-> MarkSent(conversations[j], m.id, tid)])
        /\ Continue(RunLoop(b1, now), Settle(dispatchLog, "ok", tid), success, now)
  /\ UNCHANGED << started, accounts, activeConversationId, now, loading, error, gen >>

\* The dispatch call of the batch throws (response not ok, or the fetch rejects).
SendAllDispatchFailed ==
  /\ send.stage = "dispatching" /\ send.kind = "batch"
  /\ LET m == send.messagesWithSchedule[send.i]
         b1 == OnDispatchFailed(send)
     IN /\ conversations' = SetMessages(conversations, send.convId,
                                        [j \in DOMAIN conversations |-> MarkFailed(conversations[j], m.id)])
        /\ Continue(RunLoop(b1, now), Settle(dispatchLog, "failed", NoMessageId), success, now)
  /\ UNCHANGED << started, accounts, activeConversationId, now, loading, error, gen >>

\* ------------------------------------------------------------ single send
\* currentTime: the clock as the one-second interval last stored it
\* (setInterval(() => setCurrentTime(new Date()), 1000), started with the page at 0)
CurrentTime == now - (now % CountdownPeriod)

\* getCountdown(scheduledTime) is not null: a schedule is shown as pending until
\* it is 5 seconds in the past
HasCountdown(scheduledTime) ==
  scheduledTime # NoTime /\ ~(scheduledTime - CurrentTime <= -CountdownGrace)

\* const isScheduled = msg.scheduledSendTime && !msg.sent && countdown !== null
IsScheduled(msg) ==
  msg.scheduledSendTime # NoTime /\ ~msg.sent /\ HasCountdown(msg.scheduledSendTime)

\* Mutant of PreviousMessageId: the first sent message is taken, not the last.
PreviousMessageIdFirst(conv) ==
  LET sentMessages == SelectSeq2(conv.messages,
                         { m \in Range(conv.messages) : m.sent /\ m.emailMessageId # NoMessageId })
  IN IF Len(sentMessages) > 0 THEN sentMessages[1].emailMessageId
     ELSE NoMessageId

\* conv.messages.filter(m => m.sent && m.emailMessageId), last element's emailMessageId
PreviousMessageId(conv) ==
  LET sentMessages == SelectSeq2(conv.messages,
                         { m \in Range(conv.messages) : m.sent /\ m.emailMessageId # NoMessageId })
  IN IF Len(sentMessages) > 0 THEN sentMessages[Len(sentMessages)].emailMessageId
     ELSE NoMessageId

\* handleSendEmail(msg) past its early returns, for message k of the open
\* conversation: up to the await of the dispatch call.
SendEmailCall(k) ==
  /\ LET conv == ActiveConv
         message == conv.messages[k]
         senderAccount == conv.selectedAccount
     IN /\ send' = [ kind |-> "single", stage |-> "dispatching",
                     convId |-> activeConversationId, conv |-> conv,
                     message |-> message, startedAt |-> now ]
        /\ dispatchLog' = << SendEmailInternal(message, senderAccount, conv.otherAccounts,
                                               ConversationSubject(conv),
                                               PreviousMessageId(conv), k, now) >>
  /\ sendingEmail' = TRUE
  /\ error' = ""
  /\ success' = NoBanner
  /\ UNCHANGED << accounts, conversations, activeConversationId, now,
                  loading, gen >>

\* conv.selectedAccount?.emailConfig && !msg.sent: the "Send Email" button is rendered
SendEmailShown(conv, msg) ==
  conv.selectedAccount # NoAccount /\ conv.selectedAccount.emailConfig /\ ~msg.sent

\* disabled={sendingEmail || conv.otherAccounts.length === 0 || isScheduled}
SendEmailDisabled(conv, msg) ==
  sendingEmail \/ Len(conv.otherAccounts) = 0 \/ IsScheduled(msg)

\* A click on "Send Email" of message k: handleSendEmail(msg) to the await of
\* the dispatch call.  The button is rendered for unsent messages when the
\* sender of record has SMTP settings, and disabled while a send is in progress,
\* without recipients, or while the message shows a countdown.
SendEmail(k) ==
  /\ HasActive
  /\ k \in DOMAIN ActiveConv.messages
  /\ SendEmailShown(ActiveConv, ActiveConv.messages[k])
  /\ ~SendEmailDisabled(ActiveConv, ActiveConv.messages[k])
  /\ started < MaxSends
  /\ started' = started + 1
  /\ SendEmailCall(k)

\* The dispatch call of the single send returns the transport id of the mail.
SendEmailDispatched ==
  /\ send.stage = "dispatching" /\ send.kind = "single"
  /\ conversations' = SetMessages(conversations, send.convId,
                                  [j \in DOMAIN conversations |-> MarkSent(conversations[j], send.message.id, TransportMessageId)])
  /\ dispatchLog' = Settle(dispatchLog, "ok", TransportMessageId)
  /\ success' = [NoBanner EXCEPT !.kind = "single"]
  /\ sendingEmail' = FALSE
  /\ send' = [send EXCEPT !.stage = "done"]
  /\ UNCHANGED << started, accounts, activeConversationId, now, loading, error, gen >>

\* The dispatch call of the single send throws.
SendEmailDispatchFailed ==
  /\ send.stage = "dispatching" /\ send.kind = "single"
  /\ dispatchLog' = Settle(dispatchLog, "failed", NoMessageId)
  /\ error' = "Failed to send email"
  /\ sendingEmail' = FALSE
  /\ send' = [send EXCEPT !.stage = "done"]
  /\ UNCHANGED << started, accounts, conversations, activeConversationId, now,
                  loading, success, gen >>

\* ------------------------------------------------------------- generation
\* The Message record built from a generated text; the id is the clock reading
\* (Date.now().toString(), with the loop index appended by the full generation:
\* suffix -1 stands for no suffix).
NewMessage(sender, t, suffix) ==
  [ id |-> << t, suffix >>, accountId |-> sender.id, accountName |-> sender.name,
    sent |-> FALSE, scheduledSendTime |-> NoTime, emailMessageId |-> NoMessageId ]

\* handleGenerateMessage, from the click on "Generate Single Message" to the await
\* of the generation call.
GenerateMessage ==
  /\ HasActive
  /\ ~loading
  /\ ActiveConv.selectedAccount # NoAccount
  /\ Len(ActiveConv.otherAccounts) # 0
  /\ Len(ActiveConv.messages) < MaxMsgs
  /\ gen' = [ stage |-> "single", convId |-> activeConversationId, conv |-> ActiveConv,
              startedAt |-> now ]
  /\ loading' = TRUE
  /\ error' = ""
  /\ success' = NoBanner
  /\ UNCHANGED << started, accounts, conversations, activeConversationId, now,
                  sendingEmail, send, dispatchLog >>

\* c => ({...c, messages: [...c.messages, newMessage], prompt: ""})
AppendMessage(c, newMessage) == Append(c.messages, newMessage)

\* The generation call returns a non-empty text; the request took at least a
\* millisecond.
GenerateMessageDone ==
  /\ gen.stage = "single"
  /\ now > gen.startedAt
  /\ conversations' = SetMessages(conversations, gen.convId,
         [j \in DOMAIN conversations |-> AppendMessage(conversations[j], NewMessage(gen.conv.selectedAccount, now, -1))])
  /\ loading' = FALSE
  /\ gen' = IdleGen
  /\ UNCHANGED << started, accounts, activeConversationId, now, sendingEmail,
                  error, success, send, dispatchLog >>

\* The generation call fails or returns a blank text.
GenerateMessageFailed ==
  /\ gen.stage = "single"
  /\ error' = "Failed to generate message"
  /\ loading' = FALSE
  /\ gen' = IdleGen
  /\ UNCHANGED << started, accounts, conversations, activeConversationId, now,
                  sendingEmail, success, send, dispatchLog >>

\* ------------------------------------------------------------ participants
\* updateActiveConversation(updater) on one field other than messages
SetActiveField(convs, id, upd) ==
  [ k \in DOMAIN convs |-> IF id # NoConversation /\ convs[k].id = id THEN upd[k]
                           ELSE convs[k] ]

\* toggleOtherAccount(account): the updater
ToggleOtherAccount(c, account) ==
  LET isSelected == \E a \in Range(c.otherAccounts) : a.id = account.id
  IN [ c EXCEPT !.otherAccounts = IF isSelected THEN FilterOutId(@, account.id)
                                  ELSE Append(@, account) ]

\* Mutant of IsParticipant: no account counts as a participant.
IsParticipantNever(conv, account) == FALSE

\* const isParticipant of the participants list
IsParticipant(conv, account) ==
  \/ (conv.selectedAccount # NoAccount /\ conv.selectedAccount.id = account.id)
  \/ \E a \in Range(conv.otherAccounts) : a.id = account.id

\* The "+" button of an account that is not a participant.
AddParticipant(k) ==
  /\ HasActive
  /\ k \in DOMAIN accounts
  /\ ~IsParticipant(ActiveConv, accounts[k])
  /\ conversations' =
       IF ActiveConv.selectedAccount = NoAccount
       THEN SetActiveField(conversations, activeConversationId,
                           [j \in DOMAIN conversations |-> [conversations[j] EXCEPT !.selectedAccount = accounts[k]]])
       ELSE SetActiveField(conversations, activeConversationId,
                           [j \in DOMAIN conversations |-> ToggleOtherAccount(conversations[j], accounts[k])])
  /\ UNCHANGED << started, accounts, activeConversationId, now, loading,
                  sendingEmail, error, success, send, gen, dispatchLog >>

\* The "x" button of an account that is a participant.
RemoveParticipant(k) ==
  /\ HasActive
  /\ k \in DOMAIN accounts
  /\ IsParticipant(ActiveConv, accounts[k])
  /\ conversations' =
       IF ActiveConv.selectedAccount # NoAccount
          /\ ActiveConv.selectedAccount.id = accounts[k].id
       THEN SetActiveField(conversations, activeConversationId,
                           [j \in DOMAIN conversations |-> [conversations[j] EXCEPT !.selectedAccount = NoAccount]])
       ELSE SetActiveField(conversations, activeConversationId,
                           [j \in DOMAIN conversations |-> ToggleOtherAccount(conversations[j], accounts[k])])
  /\ UNCHANGED << started, accounts, activeConversationId, now, loading,
                  sendingEmail, error, success, send, gen, dispatchLog >>

\* The "Clear" button of the message list (shown while the list is not empty),
\* confirmed: every message of the open conversation is deleted.
ClearMessages ==
  /\ HasActive
  /\ Len(ActiveConv.messages) > 0
  /\ conversations' = SetMessages(conversations, activeConversationId, [j \in DOMAIN conversations |-> << >>])
  /\ UNCHANGED << started, accounts, activeConversationId, now, loading,
                  sendingEmail, error, success, send, gen, dispatchLog >>

\* A click on a conversation tab: setActiveConversationId(id).
SelectConversation(k) ==
  /\ k \in DOMAIN conversations
  /\ activeConversationId # conversations[k].id
  /\ activeConversationId' = conversations[k].id
  /\ UNCHANGED << started, accounts, conversations, now, loading, sendingEmail,
                  error, success, send, gen, dispatchLog >>

\* ------------------------------------------------------------------ clock
\* A minute passes.
Tick ==
  /\ now < MaxTime
  /\ now' = now + MsPerMinute
  /\ UNCHANGED << started, accounts, conversations, activeConversationId, loading,
                  sendingEmail, error, success, send, gen, dispatchLog >>

\* ---------------------------------------------------------- specification
\* Participants of the stored conversation: everybody, with X as sender of
\* record; or no sender of record and X the only participant.
ParticipantSetups ==
  { [selectedAccount |-> StoredAccounts[1],
     otherAccounts |-> << StoredAccounts[2], StoredAccounts[3] >>],
    [selectedAccount |-> NoAccount, otherAccounts |-> << StoredAccounts[1] >>] }

\* Author lists of the stored messages: every list of 1 .. MaxMsgs accounts.
AuthorLists == UNION { [1..n -> 1..Len(StoredAccounts)] : n \in 1..MaxMsgs }

\* The stored messages, generated before the page was loaded at time 0, with
\* the distinct ids of distinct generation times; the messages at the positions
\* in sentAt were sent in an earlier session, each with its own transport id,
\* the others are unsent; none is scheduled.
StoredMessages(authors, sentAt) ==
  [ k \in DOMAIN authors |->
      LET m == NewMessage(StoredAccounts[authors[k]], k - 1 - Len(authors), -1)
      IN IF k \in sentAt THEN [ m EXCEPT !.sent = TRUE, !.emailMessageId = k ] ELSE m ]

\* A conversation as the page loads it from the browser's storage: created by
\* handleCreateConversationWithName, then given participants, delays and messages.
StoredConversation(delay, setup, authors, sentAt) ==
  [ id |-> 1, name |-> "c",
    selectedAccount |-> setup.selectedAccount, otherAccounts |-> setup.otherAccounts,
    messages |-> StoredMessages(authors, sentAt),
    minDelayMinutes |-> delay[1], maxDelayMinutes |-> delay[2],
    conversationLength |-> 6, emailSubject |-> "Conversation: c" ]

Init ==
  /\ accounts = StoredAccounts
  /\ \E delay \in DelayPairs, setup \in ParticipantSetups, authors \in AuthorLists :
       \E sentAt \in SUBSET DOMAIN authors :
         conversations = << StoredConversation(delay, setup, authors, sentAt) >>
  /\ activeConversationId = NoConversation
  /\ now = 0
  /\ loading = FALSE
  /\ sendingEmail = FALSE
  /\ error = ""
  /\ success = NoBanner
  /\ send = IdleSend
  /\ gen = IdleGen
  /\ dispatchLog = << >>
  /\ started = 0

Next ==
  \/ \E k \in 1..Len(conversations) : SelectConversation(k)
  \/ SendAllMessages
  \/ TimerFired
  \/ SendAllDispatched
  \/ SendAllDispatchFailed
  \/ \E k \in 1..MaxMsgs : SendEmail(k)
  \/ SendEmailDispatched
  \/ SendEmailDispatchFailed
  \/ ClearMessages
  \/ Tick

Spec == Init /\ [][Next]_vars

\* ------------------------------------------- the single send as a handler
\* Mutant of SendEmailError: the recipients check is left out.
SendEmailErrorLax(conv) ==
  IF conv.selectedAccount = NoAccount \/ ~conv.selectedAccount.emailConfig
  THEN "Please configure email settings for this account"
  ELSE ""

\* The early returns of handleSendEmail behind the conversation lookup: the
\* message of the error it sets, "" when the handler goes on to dispatch.
SendEmailError(conv) ==
  IF conv.selectedAccount = NoAccount \/ ~conv.selectedAccount.emailConfig
  THEN "Please configure email settings for this account"
  ELSE IF Len(conv.otherAccounts) = 0
       THEN "Please select at least one recipient"
       ELSE ""

\* handleSendEmail(message) called with message k of the open conversation,
\* whatever the buttons show: it returns early with an error, or runs to the
\* await of the dispatch call.
HandleSendEmail(k) ==
  /\ HasActive
  /\ k \in DOMAIN ActiveConv.messages
  /\ ~sendingEmail
  /\ started < MaxSends
  /\ started' = started + 1
  /\ LET conv == ActiveConv
         message == conv.messages[k]
         locals == [ kind |-> "single", stage |-> "dispatching",
                     convId |-> activeConversationId, conv |-> conv,
                     message |-> message, startedAt |-> now ]
     IN IF SendEmailError(conv) # ""
        THEN /\ error' = SendEmailError(conv)
             /\ send' = [ locals EXCEPT !.stage = "rejected" ]
             /\ dispatchLog' = << >>
             /\ UNCHANGED << sendingEmail, success >>
        ELSE /\ sendingEmail' = TRUE
             /\ error' = ""
             /\ success' = NoBanner
             /\ send' = locals
             /\ dispatchLog' = << SendEmailInternal(message, conv.selectedAccount,
                                                    conv.otherAccounts,
                                                    ConversationSubject(conv),
                                                    PreviousMessageId(conv), k, now) >>
  /\ UNCHANGED << accounts, conversations, activeConversationId, now, loading, gen >>

\* Participants of the stored conversation the handler is called on: a sender
\* of record with SMTP settings and a recipient; the same without recipients; a
\* sender of record without SMTP settings; no sender of record.
SendOneSetups ==
  { [selectedAccount |-> StoredAccounts[1], otherAccounts |-> << StoredAccounts[2] >>],
    [selectedAccount |-> StoredAccounts[1], otherAccounts |-> << >>],
    [selectedAccount |-> StoredAccounts[3], otherAccounts |-> << StoredAccounts[1] >>],
    [selectedAccount |-> NoAccount, otherAccounts |-> << StoredAccounts[1] >>] }

InitSendOne ==
  /\ accounts = StoredAccounts
  /\ \E setup \in SendOneSetups, authors \in AuthorLists :
       \E sentAt \in SUBSET DOMAIN authors :
         conversations = << StoredConversation(<<1, 1>>, setup, authors, sentAt) >>
  /\ activeConversationId = NoConversation
  /\ now = 0
  /\ loading = FALSE
  /\ sendingEmail = FALSE
  /\ error = ""
  /\ success = NoBanner
  /\ send = IdleSend
  /\ gen = IdleGen
  /\ dispatchLog = << >>
  /\ started = 0

NextSendOne ==
  \/ \E k \in 1..Len(conversations) : SelectConversation(k)
  \/ \E k \in 1..MaxMsgs : HandleSendEmail(k)
  \/ SendEmailDispatched
  \/ SendEmailDispatchFailed
  \/ ClearMessages

SpecSendOne == InitSendOne /\ [][NextSendOne]_vars

\* ------------------------------------------------- the full generation
\* allParticipants.filter((_, idx) => idx !== senderIndex), positions from 1
RemoveAt(s, idx) ==
  [ k \in 1..(Len(s) - 1) |-> IF k < idx THEN s[k] ELSE s[k + 1] ]

\* Mutant of SenderIndex: every turn is taken by the first participant.
SenderIndexFirst(i, n) == 1

\* const senderIndex = i % allParticipants.length, for the iteration at position
\* i (source index i - 1) and n participants; positions from 1
SenderIndex(i, n) == ((i - 1) % n) + 1

\* The body the loop posts to /api/generate-message in iteration g.i.
GenerateRequest(g) ==
  LET senderIndex == SenderIndex(g.i, Len(g.allParticipants))
  IN [ i |-> g.i,
       account |-> g.allParticipants[senderIndex],
       otherAccounts |-> RemoveAt(g.allParticipants, senderIndex),
       conversationHistory |-> g.currentHistory,
       at |-> g.enteredAt,
       result |-> "pending" ]

\* The for loop of handleGenerateFullConversation at its head: it posts the
\* request of iteration g.i, or it is past conv.conversationLength.
LoopHead(g) ==
  IF g.i > g.conv.conversationLength THEN [ g EXCEPT !.stage = "finish" ]
  ELSE [ g EXCEPT !.stage = "full", !.calls = Append(@, GenerateRequest(g)) ]

\* newMessages.push(newMessage); currentHistory = [...currentHistory, newMessage]
PushMessage(g, t) ==
  LET sender == g.calls[Len(g.calls)].account
      newMessage == NewMessage(sender, t, g.i - 1)
  IN [ g EXCEPT !.newMessages = Append(@, newMessage),
                !.currentHistory = Append(@, newMessage),
                !.calls[Len(g.calls)].result = "ok",
                !.i = @ + 1, !.enteredAt = t ]

\* `Generated ${newMessages.length} messages`
GeneratedBanner(g) == [ NoBanner EXCEPT !.kind = "generated", !.totalCount = Len(g.newMessages) ]

\* c => ({...c, messages: [...c.messages, ...newMessages], prompt: ""})
AppendMessages(c, newMessages) == c.messages \o newMessages

\* State after a synchronous run of the generation loop that ended in g.stage.
ContinueGenerate(g) ==
  /\ gen' = IF g.stage = "finish" THEN [ g EXCEPT !.stage = "done" ] ELSE g
  /\ loading' = (g.stage # "finish")
  /\ success' = IF g.stage = "finish" THEN GeneratedBanner(g) ELSE success
  /\ conversations' =
       IF g.stage = "finish"
       THEN SetMessages(conversations, g.convId,
              [ j \in DOMAIN conversations |-> AppendMessages(conversations[j], g.newMessages) ])
       ELSE conversations

\* handleGenerateFullConversation, from the click on "Generate Full Conversation"
\* to the await of the first generation call.
GenerateFullConversation ==
  /\ HasActive
  /\ ~loading
  /\ ActiveConv.selectedAccount # NoAccount
  /\ Len(ActiveConv.otherAccounts) # 0
  /\ Len(ActiveConv.messages) + ActiveConv.conversationLength <= MaxMsgs
  /\ LET conv == ActiveConv
         g0 == [ stage |-> "full", convId |-> activeConversationId, conv |-> conv,
                 allParticipants |-> << conv.selectedAccount >> \o conv.otherAccounts,
                 newMessages |-> << >>, currentHistory |-> conv.messages,
                 i |-> 1, calls |-> << >>, startedAt |-> now, enteredAt |-> now ]
     IN /\ gen' = LoopHead(g0)
        /\ loading' = TRUE
        /\ success' = NoBanner
  /\ error' = ""
  /\ UNCHANGED << started, accounts, conversations, activeConversationId, now,
                  sendingEmail, send, dispatchLog >>

\* The awaited generation call of the loop returns a non-empty text: the message
\* is pushed and the loop goes on to its next await or to its end.
GenerateFullReturned ==
  /\ gen.stage = "full"
  /\ ContinueGenerate(LoopHead(PushMessage(gen, now)))
  /\ UNCHANGED << started, accounts, activeConversationId, now, sendingEmail,
                  error, send, dispatchLog >>

\* The awaited generation call of the loop fails or returns a blank text: the
\* throw leaves the loop for the catch.
GenerateFullFailed ==
  /\ gen.stage = "full"
  /\ gen' = [ gen EXCEPT !.stage = "failed", !.calls[Len(gen.calls)].result = "failed" ]
  /\ error' = "Failed to generate message"
  /\ loading' = FALSE
  /\ UNCHANGED << started, accounts, conversations, activeConversationId, now,
                  sendingEmail, success, send, dispatchLog >>

\* conversationLength of the stored conversation
GenerateLengths == { 2, 3 }

\* Participants of the stored conversation: a sender of record and one or two others.
GenerateSetups ==
  { [selectedAccount |-> StoredAccounts[1],
     otherAccounts |-> << StoredAccounts[2], StoredAccounts[3] >>],
    [selectedAccount |-> StoredAccounts[2], otherAccounts |-> << StoredAccounts[1] >>] }

InitGenerate ==
  /\ accounts = StoredAccounts
  /\ \E setup \in GenerateSetups, length \in GenerateLengths :
       \E authors \in { << >> } \cup { a \in AuthorLists : Len(a) = 1 } :
         conversations = << [ StoredConversation(<<1, 1>>, setup, authors, {})
                                EXCEPT !.conversationLength = length ] >>
  /\ activeConversationId = NoConversation
  /\ now = 0
  /\ loading = FALSE
  /\ sendingEmail = FALSE
  /\ error = ""
  /\ success = NoBanner
  /\ send = IdleSend
  /\ gen = IdleGen
  /\ dispatchLog = << >>
  /\ started = 0

NextGenerate ==
  \/ \E k \in 1..Len(conversations) : SelectConversation(k)
  \/ GenerateFullConversation
  \/ GenerateFullReturned
  \/ GenerateFullFailed
  \/ GenerateMessage
  \/ GenerateMessageDone
  \/ GenerateMessageFailed
  \/ ClearMessages
  \/ Tick

SpecGenerate == InitGenerate /\ [][NextGenerate]_vars

\* ------------------------------------------------------- typed text
\* A text typed into an input is a sequence of characters.
TextsOver(chars, n) == UNION { [1..k -> chars] : k \in 0..n }

\* The string of a text.
RECURSIVE Join(_)
Join(text) == IF text = << >> THEN "" ELSE Head(text) \o Join(Tail(text))

RECURSIVE TrimStart(_)
TrimStart(text) ==
  IF text # << >> /\ Head(text) = " " THEN TrimStart(Tail(text)) ELSE text

RECURSIVE TrimEnd(_)
TrimEnd(text) ==
  IF text # << >> /\ text[Len(text)] = " " THEN TrimEnd(SubSeq(text, 1, Len(text) - 1))
  ELSE text

\* Mutant of Trim: the text is taken as typed.
TrimNot(text) == text

\* String.prototype.trim
Trim(text) == TrimEnd(TrimStart(text))

DigitValue(ch) ==
  CASE ch = "0" -> 0 [] ch = "1" -> 1 [] ch = "2" -> 2 [] ch = "3" -> 3 [] ch = "4" -> 4
    [] ch = "5" -> 5 [] ch = "6" -> 6 [] ch = "7" -> 7 [] ch = "8" -> 8 [] ch = "9" -> 9
    [] OTHER -> -1

\* The value of the longest prefix of digits of text, continuing from value acc;
\* seen tells whether a digit has been read.
RECURSIVE ParseDigits(_, _, _)
ParseDigits(text, acc, seen) ==
  IF text = << >> \/ DigitValue(Head(text)) < 0 THEN [nan |-> ~seen, value |-> acc]
  ELSE ParseDigits(Tail(text), 10 * acc + DigitValue(Head(text)), TRUE)

\* parseInt(text) and, on texts without "." and exponent, parseFloat(text):
\* leading blanks, a sign, digits; NaN without a digit.
ParseInt(text) ==
  LET t == TrimStart(text)
  IN IF t # << >> /\ Head(t) = "-"
     THEN LET p == ParseDigits(Tail(t), 0, FALSE) IN [p EXCEPT !.value = 0 - @]
     ELSE ParseDigits(t, 0, FALSE)

\* p || d on a number: NaN and 0 are falsy
OrElse(p, d) == IF p.nan \/ p.value = 0 THEN d ELSE p.value

\* ------------------------------------------------ conversation settings
\* Characters typed into the number inputs, and the texts of up to two of them.
NumberTexts == TextsOver({ "-", "0", "1" }, 2)

\* Characters typed into a name input, and the texts of up to two of them.
NameTexts == TextsOver({ " ", "a" }, 2)

\* Mutant of MinDelayEdited: max is left as it is.
MinDelayEditedUnclamped(c, text) ==
  [ c EXCEPT !.minDelayMinutes = OrElse(ParseInt(text), 0) ]

\* The updater of the minimum-delay input's onChange
MinDelayEdited(c, text) ==
  LET min == OrElse(ParseInt(text), 0)
  IN [ c EXCEPT !.minDelayMinutes = min,
                !.maxDelayMinutes = IF c.maxDelayMinutes < min THEN min ELSE c.maxDelayMinutes ]

\* The updater of the maximum-delay input's onChange
MaxDelayEdited(c, text) ==
  LET max == OrElse(ParseInt(text), 0)
  IN [ c EXCEPT !.maxDelayMinutes = max,
                !.minDelayMinutes = IF c.minDelayMinutes > max THEN max ELSE c.minDelayMinutes ]

\* The updater of the conversation-length input's onChange
LengthEdited(c, text) ==
  [ c EXCEPT !.conversationLength = OrElse(ParseInt(text), 2) ]

\* The text of the minimum-delay input of the open conversation changes.
SetMinDelay(text) ==
  /\ HasActive
  /\ conversations' = SetActiveField(conversations, activeConversationId,
       [ j \in DOMAIN conversations |-> MinDelayEdited(conversations[j], text) ])
  /\ UNCHANGED << started, accounts, activeConversationId, now, loading,
                  sendingEmail, error, success, send, gen, dispatchLog >>

\* The text of the maximum-delay input of the open conversation changes.
SetMaxDelay(text) ==
  /\ HasActive
  /\ conversations' = SetActiveField(conversations, activeConversationId,
       [ j \in DOMAIN conversations |-> MaxDelayEdited(conversations[j], text) ])
  /\ UNCHANGED << started, accounts, activeConversationId, now, loading,
                  sendingEmail, error, success, send, gen, dispatchLog >>

\* The text of the conversation-length input of the open conversation changes.
SetConversationLength(text) ==
  /\ HasActive
  /\ conversations' = SetActiveField(conversations, activeConversationId,
       [ j \in DOMAIN conversations |-> LengthEdited(conversations[j], text) ])
  /\ UNCHANGED << started, accounts, activeConversationId, now, loading,
                  sendingEmail, error, success, send, gen, dispatchLog >>

\* const newConv of handleCreateConversationWithName, created at time t
NewConversation(name, t) ==
  [ id |-> t, name |-> Join(Trim(name)),
    selectedAccount |-> NoAccount, otherAccounts |-> << >>, messages |-> << >>,
    minDelayMinutes |-> 1, maxDelayMinutes |-> 5, conversationLength |-> 6,
    emailSubject |-> "Conversation: " \o Join(Trim(name)) ]

\* handleCreateConversationWithName with the typed name.  Ids are clock
\* readings: no two conversations are created in the same millisecond.
CreateConversation(name) ==
  /\ now # NoConversation
  /\ \A c \in Range(conversations) : c.id # now
  /\ IF Trim(name) = << >>
     THEN /\ error' = "Conversation name is required"
          /\ UNCHANGED << conversations, activeConversationId >>
     ELSE /\ conversations' = Append(conversations, NewConversation(name, now))
          /\ activeConversationId' = now
          /\ error' = ""
  /\ UNCHANGED << started, accounts, now, loading, sendingEmail, success, send,
                  gen, dispatchLog >>

\* The page starts without conversations, or with a stored one.
InitEdit ==
  /\ accounts = StoredAccounts
  /\ \/ conversations = << >>
     \/ \E delay \in DelayPairs, setup \in ParticipantSetups :
          conversations = << StoredConversation(delay, setup, << >>, {}) >>
  /\ activeConversationId = NoConversation
  /\ now = 0
  /\ loading = FALSE
  /\ sendingEmail = FALSE
  /\ error = ""
  /\ success = NoBanner
  /\ send = IdleSend
  /\ gen = IdleGen
  /\ dispatchLog = << >>
  /\ started = 0

NextEdit ==
  \/ \E k \in 1..Len(conversations) : SelectConversation(k)
  \/ \E name \in NameTexts : CreateConversation(name)
  \/ \E text \in NumberTexts : SetMinDelay(text)
  \/ \E text \in NumberTexts : SetMaxDelay(text)
  \/ \E text \in NumberTexts : SetConversationLength(text)
  \/ Tick

SpecEdit == InitEdit /\ [][NextEdit]_vars

\* -------------------------------------------------------------- accounts
\* Texts typed into the name and email inputs of the account dialogs: nothing,
\* a blank, and a text with a blank behind it.
AccountTexts == { << >>, << " " >>, << "a", " " >> }

\* handleAddAccount with the typed name and email.  Ids are clock readings: no
\* two accounts are created in the same millisecond.
AddAccount(name, email) ==
  /\ now # NoAccount.id
  /\ \A a \in Range(accounts) : a.id # now
  /\ IF Trim(name) = << >> \/ Trim(email) = << >>
     THEN /\ error' = "Name and email are required"
          /\ UNCHANGED accounts
     ELSE /\ accounts' = Append(accounts, [ id |-> now, name |-> Join(Trim(name)),
                                            email |-> Join(Trim(email)),
                                            emailConfig |-> FALSE ])
          /\ error' = ""
  /\ UNCHANGED << started, conversations, activeConversationId, now, loading,
                  sendingEmail, success, send, gen, dispatchLog >>

\* accounts.map(acc => acc.id === editAccountId ? {...acc, name, email} : acc)
AccountEdited(accs, editAccountId, name, email) ==
  [ j \in DOMAIN accs |->
      IF accs[j].id = editAccountId
      THEN [ accs[j] EXCEPT !.name = Join(Trim(name)), !.email = Join(Trim(email)) ]
      ELSE accs[j] ]

\* handleEditAccount with the edit dialog opened on account k and the typed
\* name and email.
EditAccount(k, name, email) ==
  /\ k \in DOMAIN accounts
  /\ IF Trim(name) = << >> \/ Trim(email) = << >>
     THEN /\ error' = "Name and email are required"
          /\ UNCHANGED accounts
     ELSE /\ accounts' = AccountEdited(accounts, accounts[k].id, name, email)
          /\ error' = ""
  /\ UNCHANGED << started, conversations, activeConversationId, now, loading,
                  sendingEmail, success, send, gen, dispatchLog >>

\* Mutant of DeleteAccount: the account is taken out of the participants too.
DeleteAccountCascading(k, confirmed) ==
  /\ k \in DOMAIN accounts
  /\ confirmed
  /\ accounts' = FilterOutId(accounts, accounts[k].id)
  /\ conversations' =
       [ j \in DOMAIN conversations |->
           [ conversations[j] EXCEPT !.otherAccounts = FilterOutId(@, accounts[k].id) ] ]
  /\ success' = [ NoBanner EXCEPT !.kind = "deleted" ]
  /\ UNCHANGED << started, activeConversationId, now, loading,
                  sendingEmail, error, send, gen, dispatchLog >>

\* handleDeleteAccount(accounts[k].id); confirmed is the answer to confirm().
DeleteAccount(k, confirmed) ==
  /\ k \in DOMAIN accounts
  /\ IF confirmed
     THEN /\ accounts' = FilterOutId(accounts, accounts[k].id)
          /\ success' = [ NoBanner EXCEPT !.kind = "deleted" ]
     ELSE UNCHANGED << accounts, success >>
  /\ UNCHANGED << started, conversations, activeConversationId, now, loading,
                  sendingEmail, error, send, gen, dispatchLog >>

\* The page starts with the stored accounts and a stored conversation of one
\* sent message.
InitAccounts ==
  /\ accounts = StoredAccounts
  /\ \E setup \in ParticipantSetups :
       \E authors \in { a \in AuthorLists : Len(a) = 1 } :
         conversations = << StoredConversation(<<1, 1>>, setup, authors, { 1 }) >>
  /\ activeConversationId = NoConversation
  /\ now = 0
  /\ loading = FALSE
  /\ sendingEmail = FALSE
  /\ error = ""
  /\ success = NoBanner
  /\ send = IdleSend
  /\ gen = IdleGen
  /\ dispatchLog = << >>
  /\ started = 0

NextAccounts ==
  \/ \E name \in AccountTexts, email \in AccountTexts : AddAccount(name, email)
  \/ \E k \in 1..Len(accounts) : \E name \in AccountTexts, email \in AccountTexts :
       EditAccount(k, name, email)
  \/ \E k \in 1..Len(accounts) : \E confirmed \in BOOLEAN : DeleteAccount(k, confirmed)
  \/ Tick

SpecAccounts == InitAccounts /\ [][NextAccounts]_vars

\* ------------------------------------------- participants and accounts
\* The page starts with the stored accounts and a stored conversation without
\* messages: with participants, or as created, without any.
InitParticipants ==
  /\ accounts = StoredAccounts
  /\ \E setup \in ParticipantSetups
                    \cup { [selectedAccount |-> NoAccount, otherAccounts |-> << >>] } :
       conversations = << StoredConversation(<<1, 1>>, setup, << >>, {}) >>
  /\ activeConversationId = NoConversation
  /\ now = 0
  /\ loading = FALSE
  /\ sendingEmail = FALSE
  /\ error = ""
  /\ success = NoBanner
  /\ send = IdleSend
  /\ gen = IdleGen
  /\ dispatchLog = << >>
  /\ started = 0

NextParticipants ==
  \/ \E k \in 1..Len(conversations) : SelectConversation(k)
  \/ \E k \in 1..Len(accounts) : AddParticipant(k)
  \/ \E k \in 1..Len(accounts) : RemoveParticipant(k)
  \/ \E k \in 1..Len(accounts) : \E confirmed \in BOOLEAN : DeleteAccount(k, confirmed)
  \/ \E name \in AccountTexts, email \in AccountTexts : AddAccount(name, email)
  \/ Tick

SpecParticipants == InitParticipants /\ [][NextParticipants]_vars

\* ------------------------------------- sending with other work going on
\* "New Conversation" while there is room for another tab.
CreateAnotherConversation(name) ==
  /\ Len(conversations) < MaxConvs
  /\ CreateConversation(name)

\* Authors of the two stored messages: X then Y, or Z (without SMTP settings) then X.
ConcurrentAuthors == { << 1, 2 >>, << 3, 1 >> }

\* The stored conversation of the sessions below: two unsent messages, X as
\* sender of record and Y and Z as the others, one minute between two mails,
\* two messages per full generation.
ConcurrentConversation(authors, subject) ==
  [ StoredConversation(<<1, 1>>, [selectedAccount |-> StoredAccounts[1],
                                  otherAccounts |-> << StoredAccounts[2], StoredAccounts[3] >>],
                       authors, {})
    EXCEPT !.conversationLength = 2, !.emailSubject = subject ]

\* A session of one send operation with generation, clearing and tab changes
\* going on beside it.
InitConcurrent ==
  /\ accounts = StoredAccounts
  /\ \E authors \in ConcurrentAuthors :
       conversations = << ConcurrentConversation(authors, "Conversation: c") >>
  /\ activeConversationId = NoConversation
  /\ now = 0
  /\ loading = FALSE
  /\ sendingEmail = FALSE
  /\ error = ""
  /\ success = NoBanner
  /\ send = IdleSend
  /\ gen = IdleGen
  /\ dispatchLog = << >>
  /\ started = 0

NextConcurrent ==
  \/ \E k \in 1..Len(conversations) : SelectConversation(k)
  \/ CreateAnotherConversation(<< "a" >>)
  \/ SendAllMessages
  \/ TimerFired
  \/ SendAllDispatched
  \/ SendAllDispatchFailed
  \/ \E k \in 1..MaxMsgs : SendEmail(k)
  \/ SendEmailDispatched
  \/ SendEmailDispatchFailed
  \/ GenerateMessage
  \/ GenerateMessageDone
  \/ GenerateMessageFailed
  \/ GenerateFullConversation
  \/ GenerateFullReturned
  \/ GenerateFullFailed
  \/ ClearMessages
  \/ Tick

SpecConcurrent == InitConcurrent /\ [][NextConcurrent]_vars

\* ------------------------------------------- several send operations
\* A click on "Send All Messages" in a session of up to MaxClicks send operations.
ClickSendAll ==
  /\ HasActive
  /\ ~SendAllDisabled(ActiveConv)
  /\ started < MaxClicks
  /\ started' = started + 1
  /\ HandleSendAllMessages

\* A click on "Send Email" of message k in such a session.
ClickSendEmail(k) ==
  /\ HasActive
  /\ k \in DOMAIN ActiveConv.messages
  /\ SendEmailShown(ActiveConv, ActiveConv.messages[k])
  /\ ~SendEmailDisabled(ActiveConv, ActiveConv.messages[k])
  /\ started < MaxClicks
  /\ started' = started + 1
  /\ SendEmailCall(k)

\* Subjects of the stored conversation: as handleCreateConversationWithName sets
\* it, and none (the field is optional).
StoredSubjects == { "Conversation: c", "" }

InitClicks ==
  /\ accounts = StoredAccounts
  /\ \E authors \in ConcurrentAuthors, subject \in StoredSubjects :
       conversations = << ConcurrentConversation(authors, subject) >>
  /\ activeConversationId = NoConversation
  /\ now = 0
  /\ loading = FALSE
  /\ sendingEmail = FALSE
  /\ error = ""
  /\ success = NoBanner
  /\ send = IdleSend
  /\ gen = IdleGen
  /\ dispatchLog = << >>
  /\ started = 0

NextClicks ==
  \/ \E k \in 1..Len(conversations) : SelectConversation(k)
  \/ CreateAnotherConversation(<< "a" >>)
  \/ ClickSendAll
  \/ TimerFired
  \/ SendAllDispatched
  \/ SendAllDispatchFailed
  \/ \E k \in 1..MaxMsgs : ClickSendEmail(k)
  \/ SendEmailDispatched
  \/ SendEmailDispatchFailed
  \/ Tick

SpecClicks == InitClicks /\ [][NextClicks]_vars

\* ------------------------------------------- the batch under fairness
\* Every timer a batch waits on fires, and every dispatch call it awaits returns
\* or throws.
BatchFairness ==
  /\ WF_vars(TimerFired)
  /\ WF_vars(SendAllDispatched \/ SendAllDispatchFailed)

\* Authors of the three stored messages: X, Y, X; or X, Z (without SMTP
\* settings), Y.
FairAuthors == { << 1, 2, 1 >>, << 1, 3, 2 >> }

\* The page starts with one stored conversation of three unsent messages.
InitFair ==
  /\ accounts = StoredAccounts
  /\ \E authors \in FairAuthors :
       conversations = << StoredConversation(<<1, 1>>, [selectedAccount |-> StoredAccounts[1],
                              otherAccounts |-> << StoredAccounts[2], StoredAccounts[3] >>],
                              authors, {}) >>
  /\ activeConversationId = NoConversation
  /\ now = 0
  /\ loading = FALSE
  /\ sendingEmail = FALSE
  /\ error = ""
  /\ success = NoBanner
  /\ send = IdleSend
  /\ gen = IdleGen
  /\ dispatchLog = << >>
  /\ started = 0

SpecFair == InitFair /\ [][Next]_vars /\ BatchFairness

\* ------------------------------------------------------------ properties
\* A send-all batch has been started (running or finished), its locals are in send.
InBatch == send.stage # "idle" /\ send.kind = "batch"
InSingle == send.stage # "idle" /\ send.kind = "single"

Greatest(S) == CHOOSE x \in S : \A y \in S : y <= x

\* Positions of the call log before position j whose call returned successfully.
OkBefore(j) == { k \in 1..(j - 1) : dispatchLog[k].result = "ok" }

\* The transport id returned by the last successful call before position j of the log.
LastOkId(j) ==
  IF OkBefore(j) = {} THEN NoMessageId ELSE dispatchLog[Greatest(OkBefore(j))].messageId

\* C1: in a batch every dispatch call carries as previousMessageId the transport id
\* returned by the latest earlier successful call of the batch (none: no id), however
\* many failed calls lie between, and the held lastMessageId is always that id.
C1_ThreadLinkage ==
  InBatch =>
    /\ \A j \in DOMAIN dispatchLog :
         /\ dispatchLog[j].previousMessageId = LastOkId(j)
         /\ dispatchLog[j].result = "ok" => dispatchLog[j].messageId # NoMessageId
    /\ send.lastMessageId = LastOkId(Len(dispatchLog) + 1)

\* A successful call, then a failed one, then a call that carries the id of the first.
C1_Witness ==
  /\ InBatch
  /\ Len(dispatchLog) = 3
  /\ dispatchLog[1].result = "ok"
  /\ dispatchLog[2].result = "failed"
  /\ dispatchLog[3].result = "ok"
  /\ dispatchLog[3].previousMessageId = dispatchLog[1].messageId

\* C2: the first message is scheduled at the batch start t0, consecutive scheduled
\* times differ by a value in [minDelayMinutes*60000, maxDelayMinutes*60000], and
\* with minDelayMinutes = maxDelayMinutes = d message i is scheduled at t0 + i*d*60000.
C2_ScheduleWindow ==
  InBatch =>
    LET mws == send.messagesWithSchedule
        lo == send.conv.minDelayMinutes * MsPerMinute
        hi == send.conv.maxDelayMinutes * MsPerMinute
    IN /\ mws[1].scheduledSendTime = send.startedAt
       /\ \A i \in 2..Len(mws) :
            /\ mws[i].scheduledSendTime - mws[i-1].scheduledSendTime >= lo
            /\ mws[i].scheduledSendTime - mws[i-1].scheduledSendTime <= hi
            /\ lo = hi => mws[i].scheduledSendTime = send.startedAt + (i - 1) * lo

\* The sender of the message at position k of the batch is no participant with
\* SMTP settings.
LacksCredentials(k) ==
  ~ \E a \in Range(send.allParticipants) :
      a.id = send.messagesWithSchedule[k].accountId /\ a.emailConfig

\* Positions before p whose message the batch has sent.
SentBefore(p) == { q \in 1..(p - 1) : send.outcome[q] = "sent" }

\* The transport id returned for the message at position q.
IdReturnedFor(q) ==
  LET j == CHOOSE j \in DOMAIN dispatchLog : dispatchLog[j].idx = q
  IN dispatchLog[j].messageId

\* C3: a message whose sender is no participant or has no SMTP settings is never
\* passed to the dispatch call, and every call carries the id returned for the
\* nearest earlier list position that was sent (none: no id), skipped positions
\* between them changing nothing.
C3_SkipKeepsChain ==
  InBatch =>
    /\ \A k \in DOMAIN send.messagesWithSchedule :
         LacksCredentials(k) =>
           /\ ~ \E j \in DOMAIN dispatchLog : dispatchLog[j].idx = k
           /\ k < send.i => send.outcome[k] = "skipped"
    /\ \A j \in DOMAIN dispatchLog :
         dispatchLog[j].previousMessageId =
           IF SentBefore(dispatchLog[j].idx) = {} THEN NoMessageId
           ELSE IdReturnedFor(Greatest(SentBefore(dispatchLog[j].idx)))

\* Position 1 sent, position 2 skipped, position 3 dispatched with the id of position 1.
C3_Witness ==
  /\ InBatch
  /\ Len(send.messagesWithSchedule) = 3
  /\ send.outcome[1] = "sent"
  /\ send.outcome[2] = "skipped"
  /\ \E j \in DOMAIN dispatchLog :
       /\ dispatchLog[j].idx = 3
       /\ dispatchLog[j].previousMessageId = IdReturnedFor(1)
       /\ dispatchLog[j].previousMessageId # NoMessageId

Processed == { "sent", "failed", "skipped", "norecipients" }

\* C4: a failed dispatch does not end the batch: the batch stops only behind the
\* last list position, every position before the current one has been processed,
\* and the finished batch shows the batch summary.
C4_FailureNotFatal ==
  InBatch =>
    /\ \A k \in DOMAIN send.outcome : k < send.i => send.outcome[k] \in Processed
    /\ send.stage = "done" =>
         /\ send.i = Len(send.messagesWithSchedule) + 1
         /\ success.kind = "batch"
    /\ send.stage # "done" =>
         /\ send.i <= Len(send.messagesWithSchedule)
         /\ sendingEmail

\* A finished batch whose first dispatch failed and whose last message was sent.
C4_Witness ==
  /\ InBatch
  /\ send.stage = "done"
  /\ Len(send.messagesWithSchedule) = 3
  /\ send.outcome[1] = "failed"
  /\ send.outcome[2] = "skipped"
  /\ send.outcome[3] = "sent"
  /\ success.kind = "batch"

\* The messages of the batch's conversation, as the store holds them now.
BatchConvMessages ==
  IF ConvIndex(conversations, send.convId) = 0 THEN << >>
  ELSE conversations[ConvIndex(conversations, send.convId)].messages

\* C5: after its dispatch failed, a message is unsent and unscheduled in the
\* conversation, with the emailMessageId it had before the batch.
C5_FailedMessageUnsent ==
  InBatch =>
    \A k \in DOMAIN send.outcome :
      send.outcome[k] = "failed" =>
        \A m \in Range(BatchConvMessages) :
          m.id = send.messagesWithSchedule[k].id =>
            /\ ~m.sent
            /\ m.scheduledSendTime = NoTime
            /\ m.emailMessageId = send.conv.messages[k].emailMessageId

\* C6: a message that is already sent when the batch starts gets no
\* scheduledSendTime and is not passed to the dispatch call.
C6_OnlyUnsent ==
  InBatch =>
    \A k \in DOMAIN send.conv.messages :
      send.conv.messages[k].sent =>
        /\ send.messagesWithSchedule[k].scheduledSendTime = NoTime
        /\ ~ \E j \in DOMAIN dispatchLog : dispatchLog[j].idx = k

\* C7: the skipped names are the accountNames of the messages passed over for
\* missing credentials so far, each once; the finished batch reports them.
C7_SkippedNames ==
  InBatch =>
    /\ Range(send.skippedAccounts) =
         { send.messagesWithSchedule[k].accountName :
             k \in { q \in DOMAIN send.messagesWithSchedule :
                       q < send.i /\ LacksCredentials(q) } }
    /\ Cardinality(Range(send.skippedAccounts)) = Len(send.skippedAccounts)
    /\ send.stage = "done" => success.skipped = send.skippedAccounts

\* Two messages of Z, which has no SMTP settings, and one sent message: Z is
\* reported once.
C7_Witness ==
  /\ InBatch
  /\ send.stage = "done"
  /\ Cardinality({ k \in DOMAIN send.outcome : send.outcome[k] = "skipped" }) = 2
  /\ send.sentCount = 1
  /\ success.skipped = << "Z" >>

\* C8: the finished batch reports as sentCount the number of calls that returned
\* successfully and as totalCount the number of messages of the batch;
\* sentCount <= totalCount, with equality exactly when every message was sent.
C8_BatchCounts ==
  (InBatch /\ send.stage = "done") =>
    /\ success.sentCount = Cardinality({ j \in DOMAIN dispatchLog : dispatchLog[j].result = "ok" })
    /\ success.totalCount = Len(send.messagesWithSchedule)
    /\ success.sentCount <= success.totalCount
    /\ (\E k \in DOMAIN send.outcome : send.outcome[k] # "sent")
         => success.sentCount < success.totalCount
    /\ (\A k \in DOMAIN send.outcome : send.outcome[k] = "sent")
         => success.sentCount = success.totalCount

\* Three messages, all dispatched successfully.
C8_Witness ==
  /\ InBatch
  /\ send.stage = "done"
  /\ success = [kind |-> "batch", sentCount |-> 3, totalCount |-> 3, skipped |-> << >>]

\* C9: no call of a batch is made before the scheduled time of its message, and
\* the batch waits for a message only if its scheduled time is still ahead.
C9_NoEarlyDispatch ==
  InBatch =>
    /\ \A j \in DOMAIN dispatchLog :
         /\ dispatchLog[j].at >= dispatchLog[j].scheduledSendTime
         /\ dispatchLog[j].waitFrom # NoTime
              => dispatchLog[j].waitFrom < dispatchLog[j].scheduledSendTime
    /\ send.stage = "waiting"
         => send.waitFrom < send.messagesWithSchedule[send.i].scheduledSendTime

\* A message behind the first is dispatched without a wait, its scheduled time
\* reached while the call before it was in flight; another is dispatched after
\* its scheduled time has passed; a third is waited for.
C9_Witness ==
  /\ InBatch
  /\ \E j \in DOMAIN dispatchLog :
       /\ dispatchLog[j].idx > 1
       /\ dispatchLog[j].waitFrom = NoTime
       /\ dispatchLog[j].at >= dispatchLog[j].scheduledSendTime
  /\ \E j \in DOMAIN dispatchLog :
       /\ dispatchLog[j].waitFrom = NoTime
       /\ dispatchLog[j].at > dispatchLog[j].scheduledSendTime
  /\ \E j \in DOMAIN dispatchLog :
       /\ dispatchLog[j].waitFrom # NoTime
       /\ dispatchLog[j].at >= dispatchLog[j].scheduledSendTime

\* Positions of the sent messages of the conversation the single send started from.
SentPositions == { k \in DOMAIN send.conv.messages :
                     send.conv.messages[k].sent
                     /\ send.conv.messages[k].emailMessageId # NoMessageId }

\* C10: the call of a single send carries the emailMessageId of the last sent
\* message of the conversation (none: no id); when it returns, the message is
\* sent, unscheduled and holds the returned transport id.
C10_SingleSend ==
  InSingle =>
    /\ Len(dispatchLog) = 1
    /\ dispatchLog[1].previousMessageId =
         IF SentPositions = {} THEN NoMessageId
         ELSE send.conv.messages[Greatest(SentPositions)].emailMessageId
    /\ dispatchLog[1].result = "ok" =>
         /\ dispatchLog[1].messageId # NoMessageId
         /\ \A m \in Range(BatchConvMessages) :
              m.id = send.message.id =>
                /\ m.sent
                /\ m.scheduledSendTime = NoTime
                /\ m.emailMessageId = dispatchLog[1].messageId

\* A single send of the first message, with two sent messages behind it, returned.
C10_Witness ==
  /\ InSingle
  /\ send.stage = "done"
  /\ dispatchLog[1].result = "ok"
  /\ Cardinality(SentPositions) = 2
  /\ dispatchLog[1].previousMessageId = send.conv.messages[3].emailMessageId
  /\ \E m \in Range(BatchConvMessages) :
       m.id = send.message.id /\ m.sent /\ m.emailMessageId = dispatchLog[1].messageId

\* A single send has just failed: the handler returned early, or its dispatch
\* call threw.
SingleSendFails ==
  /\ send' # send
  /\ send'.stage \in { "rejected", "done" }
  /\ send'.kind = "single"
  /\ send'.stage = "done" => dispatchLog'[1].result = "failed"

\* C11: a single send that fails, by a failed precondition (no sender credentials,
\* no recipients) or by a failed dispatch, sets the error and leaves the
\* conversations as they were; no dispatch call is made for a sender without
\* SMTP settings or with no recipients.
C11_SingleSendFailure ==
  /\ [][ SingleSendFails =>
           /\ error' # ""
           /\ conversations' = conversations
           /\ send'.stage = "rejected" => dispatchLog' = << >> ]_vars
  /\ [](InSingle =>
          /\ send.stage = "rejected" <=>
               \/ send.conv.selectedAccount = NoAccount
               \/ ~send.conv.selectedAccount.emailConfig
               \/ send.conv.otherAccounts = << >>
          /\ \A j \in DOMAIN dispatchLog : dispatchLog[j].to # << >>)

\* The dispatch call of a single send has thrown: the error is shown and the
\* message is still unsent, without a transport id.
C11_Witness ==
  /\ InSingle
  /\ send.stage = "done"
  /\ dispatchLog[1].result = "failed"
  /\ error # ""
  /\ \E m \in Range(BatchConvMessages) :
       m.id = send.message.id /\ ~m.sent /\ m.emailMessageId = NoMessageId

\* A full generation has been started (running or ended), its locals are in gen.
InFull == gen.stage \in { "full", "done", "failed" }

\* C12: a full generation whose call fails stops there: the failed call is the
\* last one made, its iteration adds no message, and the messages of the earlier
\* iterations are in the conversation.
C12_AbortKeepsEarlier ==
  [][ (gen.stage = "full" /\ gen'.stage = "failed") =>
        /\ gen'.calls[Len(gen'.calls)].result = "failed"
        /\ Len(gen'.calls) = Len(gen.calls)
        /\ Len(gen'.newMessages) = Len(gen'.calls) - 1
        /\ conversations'[ConvIndex(conversations', gen.convId)].messages =
             conversations[ConvIndex(conversations, gen.convId)].messages
               \o gen'.newMessages ]_vars

\* The messages a running or ended full generation has generated so far.
Generated(j) == SubSeq(gen.newMessages, 1, j - 1)

\* The calls of a full generation so far: one per iteration, in order, each made
\* when the one before had returned, for participants[(i-1) mod n] with all the
\* other participants as counterparts and with the messages the conversation
\* had at the start followed by the messages of the iterations before.
RoundRobinCalls ==
  InFull =>
    LET n == Len(gen.allParticipants) IN
    /\ gen.allParticipants = << gen.conv.selectedAccount >> \o gen.conv.otherAccounts
    /\ \A j \in DOMAIN gen.calls :
         LET call == gen.calls[j]
             at == ((j - 1) % n) + 1
         IN /\ call.i = j
            /\ call.account = gen.allParticipants[at]
            /\ Len(call.otherAccounts) = n - 1
            /\ Range(call.otherAccounts) =
                 { gen.allParticipants[k] : k \in (1..n) \ { at } }
            /\ call.conversationHistory = gen.conv.messages \o Generated(j)
            /\ j < Len(gen.calls) => call.result = "ok"
            /\ call.result = "ok" =>
                 /\ gen.newMessages[j].accountId = call.account.id
                 /\ gen.newMessages[j].id[1] >= call.at
            /\ j > 1 => call.at = gen.newMessages[j - 1].id[1]
    /\ gen.stage = "full" => gen.calls[Len(gen.calls)].result = "pending"
    /\ Len(gen.calls) <= gen.conv.conversationLength
    /\ gen.stage = "done" =>
         /\ Len(gen.calls) = gen.conv.conversationLength
         /\ Len(gen.newMessages) = gen.conv.conversationLength

\* C13: the calls of a full generation are made one after the other, round-robin
\* over the participants, each with the history accumulated so far; the step
\* that ends a generation that succeeded appends exactly conversationLength
\* messages, in generation order, to the messages of the conversation.
C13_RoundRobin ==
  /\ []RoundRobinCalls
  /\ [][ (gen.stage = "full" /\ gen'.stage = "done") =>
           /\ conversations'[ConvIndex(conversations', gen.convId)].messages =
                conversations[ConvIndex(conversations, gen.convId)].messages
                  \o gen'.newMessages
           /\ Len(gen'.newMessages) = gen.conv.conversationLength
           /\ success'.totalCount = gen.conv.conversationLength ]_vars

\* Three participants, one stored message, a full generation of two messages
\* that succeeded: the turns went to the first and the second participant.
C13_Witness ==
  /\ gen.stage = "done"
  /\ Len(gen.allParticipants) = 3
  /\ Len(gen.conv.messages) = 1
  /\ Len(gen.calls) = 2
  /\ gen.calls[2].account = gen.allParticipants[2]
  /\ Len(gen.calls[2].conversationHistory) = 2
  /\ Len(ActiveConv.messages) = 3

\* C14: every conversation has maxDelayMinutes >= minDelayMinutes, whatever is
\* typed into the two delay inputs.
C14_DelayOrdering ==
  \A c \in Range(conversations) : c.maxDelayMinutes >= c.minDelayMinutes

\* Both clamps have acted: a minimum was typed above the maximum and raised it
\* above the default, or a maximum was typed below the minimum and lowered it
\* below zero.
C14_Witness ==
  /\ \E c \in Range(conversations) : c.minDelayMinutes = 11 /\ c.maxDelayMinutes = 11
  /\ \E c \in Range(conversations) : c.minDelayMinutes = -1 /\ c.maxDelayMinutes = -1

\* C16: every conversation has conversationLength >= 2.
C16_LengthAtLeastTwo ==
  \A c \in Range(conversations) : c.conversationLength >= 2

\* Ids of the accounts of a list, in order.
Ids(accs) == [ k \in DOMAIN accs |-> accs[k].id ]

\* C15: in every conversation otherAccounts holds no two accounts with the same
\* id, and the id of a non-null selectedAccount does not occur in otherAccounts.
C15_ParticipantInvariant ==
  \A c \in Range(conversations) :
    /\ \A i, j \in DOMAIN c.otherAccounts :
         c.otherAccounts[i].id = c.otherAccounts[j].id => i = j
    /\ c.selectedAccount # NoAccount =>
         \A i \in DOMAIN c.otherAccounts : c.otherAccounts[i].id # c.selectedAccount.id

\* After removals and additions: the second stored account has become the
\* sender of record, the third and then the first are the other participants.
C15_Witness ==
  \E c \in Range(conversations) :
    /\ c.selectedAccount = StoredAccounts[2]
    /\ Ids(c.otherAccounts) = << 3, 1 >>

\* A text that is empty after trimming: it holds nothing but blanks.
Blank(text) == \A k \in DOMAIN text : text[k] = " "

\* C17: adding or editing an account with a name or an email that is blank sets
\* the validation error and leaves the accounts as they were.
C17_AccountValidation ==
  [][ \A name \in AccountTexts, email \in AccountTexts :
        (Blank(name) \/ Blank(email)) =>
          /\ AddAccount(name, email) =>
               (error' = "Name and email are required" /\ accounts' = accounts)
          /\ \A k \in DOMAIN accounts :
               EditAccount(k, name, email) =>
                 (error' = "Name and email are required" /\ accounts' = accounts) ]_vars

\* An account has been added, and a later add or edit was refused.
C17_Witness ==
  /\ error = "Name and email are required"
  /\ Len(accounts) = Len(StoredAccounts) + 1
  /\ accounts[Len(accounts)].name = "a"

\* C18: a step that deletes an account takes exactly that account out of the
\* accounts and leaves every conversation as it was.
C18_DeleteNoCascade ==
  [][ Len(accounts') < Len(accounts) =>
        /\ \E k \in DOMAIN accounts :
             accounts' = [ j \in 1..(Len(accounts) - 1) |->
                             IF j < k THEN accounts[j] ELSE accounts[j + 1] ]
        /\ conversations' = conversations ]_vars

\* The sender of record, who wrote the sent first message, has been deleted
\* from the accounts and is still in the conversation.
C18_Witness ==
  /\ success.kind = "deleted"
  /\ \E c \in Range(conversations) :
       /\ c.selectedAccount # NoAccount
       /\ c.selectedAccount.id \notin Range(Ids(accounts))
       /\ c.otherAccounts # << >>
       /\ c.messages # << >>
       /\ c.messages[1].accountId = c.selectedAccount.id
       /\ c.messages[1].sent

\* C19: the calls of a batch are made at strictly increasing list positions, so
\* no message is passed to the dispatch call twice, and a call is made only when
\* every call before it has returned or thrown: only the last call can be in
\* flight, and only while the batch awaits it.
C19_SequentialDispatch ==
  InBatch =>
    /\ \A j, k \in DOMAIN dispatchLog :
         j < k => /\ dispatchLog[j].idx < dispatchLog[k].idx
                  /\ dispatchLog[j].at <= dispatchLog[k].at
                  /\ dispatchLog[j].result \in { "ok", "failed" }
    /\ \A j \in DOMAIN dispatchLog :
         /\ dispatchLog[j].idx < send.i => dispatchLog[j].result \in { "ok", "failed" }
         /\ dispatchLog[j].result = "pending" =>
              (send.stage = "dispatching" /\ dispatchLog[j].idx = send.i)
    /\ send.stage = "dispatching" =>
         /\ dispatchLog # << >>
         /\ dispatchLog[Len(dispatchLog)].result = "pending"

\* The third call of a batch is in flight after the first returned and the
\* second failed.
C19_Witness ==
  /\ InBatch
  /\ send.stage = "dispatching"
  /\ Len(dispatchLog) = 3
  /\ dispatchLog[1].result = "ok"
  /\ dispatchLog[2].result = "failed"
  /\ dispatchLog[3].result = "pending"
  /\ dispatchLog[3].idx = 3

\* C20: while a batch awaits a timer or a dispatch call, every message it has
\* not yet processed is in the conversation with the scheduled time the batch
\* gave it, unless the messages of the conversation have been cleared meanwhile;
\* so the schedule is written before the first call.
C20_ScheduleBeforeDispatch ==
  (InBatch /\ send.stage \in { "waiting", "dispatching" }) =>
    \/ BatchConvMessages = << >>
    \/ /\ Len(BatchConvMessages) = Len(send.messagesWithSchedule)
       /\ \A k \in DOMAIN send.messagesWithSchedule :
            k >= send.i =>
              /\ BatchConvMessages[k].id = send.messagesWithSchedule[k].id
              /\ BatchConvMessages[k].scheduledSendTime # NoTime
              /\ BatchConvMessages[k].scheduledSendTime =
                   send.messagesWithSchedule[k].scheduledSendTime

\* The first call of a batch of three is in flight and the two messages behind
\* it show their scheduled times, which are still ahead.
C20_Witness ==
  /\ InBatch
  /\ send.stage = "dispatching"
  /\ Len(dispatchLog) = 1
  /\ dispatchLog[1].idx = 1
  /\ Len(BatchConvMessages) = 3
  /\ BatchConvMessages[2].scheduledSendTime > now
  /\ BatchConvMessages[3].scheduledSendTime > BatchConvMessages[2].scheduledSendTime

\* C21: in a batch a dispatch call carries a previousMessageId and a subject
\* prefixed with "Re: " exactly when an earlier call of the batch returned
\* successfully; a call without an earlier success (the first successful dispatch
\* among them) carries no previousMessageId and the conversation subject as it
\* is: emailSubject, or "Conversation: " and the name when there is none.
C21_ReplyMarker ==
  InBatch =>
    \A j \in DOMAIN dispatchLog :
      LET call == dispatchLog[j] IN
      /\ (call.previousMessageId # NoMessageId /\ call.subject.re) <=> (OkBefore(j) # {})
      /\ (call.previousMessageId # NoMessageId) <=> call.subject.re
      /\ OkBefore(j) = {} =>
           /\ call.previousMessageId = NoMessageId
           /\ ~call.subject.re
           /\ call.subject.text = IF send.conv.emailSubject # "" THEN send.conv.emailSubject
                                  ELSE "Conversation: " \o send.conv.name

\* A conversation without stored subject: the first call returned and the second
\* carries its id and "Re: " before the name-derived subject.
C21_Witness ==
  /\ InBatch
  /\ send.conv.emailSubject = ""
  /\ Len(dispatchLog) = 2
  /\ dispatchLog[1].result = "ok"
  /\ dispatchLog[1].subject = [re |-> FALSE, text |-> "Conversation: c"]
  /\ dispatchLog[2].subject = [re |-> TRUE, text |-> "Conversation: c"]
  /\ dispatchLog[2].previousMessageId = dispatchLog[1].messageId

\* C22: when a dispatch call of the batch returns transport id T for message m,
\* the message with m's id in the batch's conversation (if the list still has it)
\* is sent, without scheduledSendTime and with emailMessageId T; T is the held
\* lastMessageId, and the dispatch call that follows carries it as previousMessageId.
C22_SuccessOutcome ==
  /\ [](InBatch /\ send.stage = "dispatching" =>
         dispatchLog[Len(dispatchLog)].previousMessageId = send.lastMessageId)
  /\ [][ SendAllDispatched =>
           LET m == send.messagesWithSchedule[send.i]
               T == dispatchLog'[Len(dispatchLog)].messageId
               c == ConvIndex(conversations', send.convId)
           IN /\ T # NoMessageId
              /\ dispatchLog'[Len(dispatchLog)].result = "ok"
              /\ send'.lastMessageId = T
              /\ c # 0 =>
                   \A q \in DOMAIN conversations'[c].messages :
                     conversations'[c].messages[q].id = m.id =>
                       /\ conversations'[c].messages[q].sent
                       /\ conversations'[c].messages[q].scheduledSendTime = NoTime
                       /\ conversations'[c].messages[q].emailMessageId = T ]_vars

\* The first message of a running batch is sent and holds the returned id, and
\* the call for the second message carries that id.
C22_Witness ==
  /\ InBatch
  /\ Len(dispatchLog) = 2
  /\ dispatchLog[1].result = "ok"
  /\ dispatchLog[2].previousMessageId = dispatchLog[1].messageId
  /\ LET c == ConvIndex(conversations, send.convId)
     IN /\ c # 0
        /\ \E q \in DOMAIN conversations[c].messages :
             /\ conversations[c].messages[q].id = dispatchLog[1].id
             /\ conversations[c].messages[q].sent
             /\ conversations[c].messages[q].scheduledSendTime = NoTime
             /\ conversations[c].messages[q].emailMessageId = dispatchLog[1].messageId

\* Ids of the messages of a list, in order.
MessageIds(msgs) == [ q \in DOMAIN msgs |-> msgs[q].id ]

\* C23: a write of the batch that records the outcome of a dispatch call (sent or
\* failed) changes at most the message with the id of the dispatched message: in
\* every conversation the list keeps its length and every other message is as
\* before, a message appended by a generation during the batch included.
C23_PerMessageWrites ==
  [][ (SendAllDispatched \/ SendAllDispatchFailed) =>
        /\ DOMAIN conversations' = DOMAIN conversations
        /\ \A c \in DOMAIN conversations :
             /\ DOMAIN conversations'[c].messages = DOMAIN conversations[c].messages
             /\ \A q \in DOMAIN conversations[c].messages :
                  conversations[c].messages[q].id # send.messagesWithSchedule[send.i].id
                    => conversations'[c].messages[q] = conversations[c].messages[q]
             /\ [ conversations'[c] EXCEPT !.messages = << >> ]
                  = [ conversations[c] EXCEPT !.messages = << >> ] ]_vars

\* A generation appended a message while the batch was running; a dispatch call
\* made after that has returned and its message is marked sent beside the
\* appended one.
C23_Witness ==
  /\ InBatch
  /\ ConvIndex(conversations, send.convId) # 0
  /\ LET msgs == conversations[ConvIndex(conversations, send.convId)].messages
     IN \E j \in DOMAIN dispatchLog, g \in DOMAIN msgs, q \in DOMAIN msgs :
          /\ dispatchLog[j].result = "ok"
          /\ msgs[g].id \notin Range(MessageIds(send.messagesWithSchedule))
          /\ msgs[g].id[1] > send.startedAt
          /\ msgs[g].id[1] < dispatchLog[j].at
          /\ msgs[q].id = dispatchLog[j].id
          /\ msgs[q].sent

\* The batch has run to its end: every position is sent, skipped or failed, the
\* summary banner is set and sendingEmail is reset.
BatchFinished ==
  /\ InBatch
  /\ send.stage = "done"
  /\ \A k \in DOMAIN send.outcome : send.outcome[k] \in Processed
  /\ success.kind = "batch"
  /\ success.totalCount = Len(send.conv.messages)
  /\ ~sendingEmail

\* C24: a started batch finishes, whatever number of its dispatch calls fail, when
\* every timer fires and every dispatch call returns or throws.
C24_BatchCompletes == (InBatch /\ sendingEmail) ~> BatchFinished

\* A batch of three messages has finished although every dispatch call failed.
C24_Witness ==
  /\ BatchFinished
  /\ Len(dispatchLog) = MaxMsgs
  /\ \A k \in DOMAIN send.outcome : send.outcome[k] = "failed"
  /\ success.sentCount = 0

\* The elements of a occur in b in the order they have in a.
RECURSIVE IsSubsequence(_, _)
IsSubsequence(a, b) ==
  IF a = << >> THEN TRUE
  ELSE IF b = << >> THEN FALSE
       ELSE IF Head(a) = Head(b) THEN IsSubsequence(Tail(a), Tail(b))
            ELSE IsSubsequence(a, Tail(b))

\* C25: every step that is not a click on Clear keeps the messages of every
\* conversation: the ids the list had are all in the new list, in the same
\* relative order.
C25_AppendOnly ==
  [][ ClearMessages \/
      /\ DOMAIN conversations \subseteq DOMAIN conversations'
      /\ \A c \in DOMAIN conversations :
           /\ conversations'[c].id = conversations[c].id
           /\ IsSubsequence(MessageIds(conversations[c].messages),
                            MessageIds(conversations'[c].messages)) ]_vars

\* After a Clear, a full generation appended two messages, a batch scheduled
\* them and marked the first one sent, and a single generation appended a third.
C25_Witness ==
  /\ InBatch
  /\ ConvIndex(conversations, send.convId) # 0
  /\ LET msgs == conversations[ConvIndex(conversations, send.convId)].messages
     IN /\ Len(msgs) = 3
        /\ msgs[1].id[2] = 0 /\ msgs[2].id[2] = 1 /\ msgs[3].id[2] = -1
        /\ msgs[1].id[1] >= 0
        /\ msgs[1].sent
        /\ msgs[2].scheduledSendTime # NoTime

\* C26: in every state every message with sent = true has an emailMessageId and
\* no scheduledSendTime.
C26_SentInvariant ==
  \A c \in DOMAIN conversations :
    \A q \in DOMAIN conversations[c].messages :
      conversations[c].messages[q].sent =>
        /\ conversations[c].messages[q].emailMessageId # NoMessageId
        /\ conversations[c].messages[q].scheduledSendTime = NoTime

\* C27: when a batch has finished, no message of its conversation carries a
\* scheduledSendTime.
C27_NoLeftoverSchedule ==
  (InBatch /\ send.stage = "done" /\ ConvIndex(conversations, send.convId) # 0) =>
    \A q \in DOMAIN conversations[ConvIndex(conversations, send.convId)].messages :
      conversations[ConvIndex(conversations, send.convId)].messages[q].scheduledSendTime = NoTime

\* C28: sendingEmail is set exactly while the one send operation held in send is
\* waiting or dispatching, and while it is set no send operation is started: the
\* operation in progress stays the same batch or single send.
C28_SingleSendInFlight ==
  /\ [](sendingEmail <=> (send.stage \in { "waiting", "dispatching" }))
  /\ [][ sendingEmail =>
           /\ started' = started
           /\ send'.kind = send.kind
           /\ send'.convId = send.convId
           /\ send'.startedAt = send.startedAt ]_vars

\* A single send is in flight, another send operation is still allowed in the
\* session, and the open conversation has messages and an unsent, unscheduled
\* message whose buttons only sendingEmail disables.
C28_Witness ==
  /\ InSingle
  /\ sendingEmail
  /\ started < MaxClicks
  /\ HasActive
  /\ SendAllDisabled(ActiveConv)
  /\ Len(ActiveConv.messages) > 0
  /\ \E k \in DOMAIN ActiveConv.messages :
       /\ SendEmailShown(ActiveConv, ActiveConv.messages[k])
       /\ SendEmailDisabled(ActiveConv, ActiveConv.messages[k])
       /\ Len(ActiveConv.otherAccounts) # 0
       /\ ~IsScheduled(ActiveConv.messages[k])

\* The conversation of the batch holds none of the batch's messages.
BatchMessagesGone ==
  LET c == ConvIndex(conversations, send.convId)
  IN c # 0 =>
       Range(MessageIds(conversations[c].messages))
         \cap Range(MessageIds(send.messagesWithSchedule)) = {}

\* C29: once the conversation of a running batch holds none of the batch's
\* messages (the user has cleared it), no later step of the batch, its timers and
\* its sent and failed writes up to the one that finishes it, and no other step
\* that does not append newly generated messages puts one of them back.
C29_ClearIsFinal ==
  [][ (InBatch /\ sendingEmail /\ BatchMessagesGone
         /\ ~(GenerateMessageDone \/ GenerateFullReturned))
        => BatchMessagesGone' ]_vars

\* The list was cleared during the batch and a generation then appended a
\* message; a dispatch call made after that has returned or failed, and the list
\* holds the appended message only.
C29_Witness ==
  /\ InBatch
  /\ BatchMessagesGone
  /\ ConvIndex(conversations, send.convId) # 0
  /\ LET msgs == conversations[ConvIndex(conversations, send.convId)].messages
     IN /\ Len(msgs) = 1
        /\ msgs[1].id[1] > send.startedAt
        /\ \E j \in DOMAIN dispatchLog :
             /\ dispatchLog[j].result = "ok"
             /\ dispatchLog[j].at > msgs[1].id[1]

\* A step of the batch that writes to the store: the schedule write of the
\* click, or the sent or failed write after a dispatch call.
BatchWrite == SendAllMessages \/ SendAllDispatched \/ SendAllDispatchFailed

\* C30: every write of a batch goes to the conversation that was open when the
\* batch was started, whichever tab is open at the time of the write: every other
\* conversation is left as it is, and the message the write is about (if the
\* list still holds it) is updated in the batch's conversation.
C30_WritesStayInConversation ==
  /\ [][ SendAllMessages =>
           /\ send'.convId = activeConversationId
           /\ conversations'[ConvIndex(conversations, activeConversationId)].messages
                = send'.messagesWithSchedule ]_vars
  /\ [][ BatchWrite =>
           /\ DOMAIN conversations' = DOMAIN conversations
           /\ \A c \in DOMAIN conversations :
                conversations[c].id # send'.convId => conversations'[c] = conversations[c] ]_vars
  /\ [][ (SendAllDispatched \/ SendAllDispatchFailed) =>
           LET c == ConvIndex(conversations, send.convId)
           IN /\ send'.convId = send.convId
              /\ c # 0 =>
                   \A q \in DOMAIN conversations[c].messages :
                     conversations[c].messages[q].id = send.messagesWithSchedule[send.i].id =>
                       /\ conversations'[c].messages[q].scheduledSendTime = NoTime
                       /\ conversations'[c].messages[q].sent
                            = (SendAllDispatched \/ conversations[c].messages[q].sent) ]_vars

\* Another conversation was created after the batch had started and is the open
\* tab; a dispatch call made after that has returned, and its message is marked
\* sent in the conversation of the batch.
C30_Witness ==
  /\ InBatch
  /\ activeConversationId # send.convId
  /\ ConvIndex(conversations, send.convId) # 0
  /\ \E c \in DOMAIN conversations, j \in DOMAIN dispatchLog :
       /\ conversations[c].id = activeConversationId
       /\ conversations[c].id > send.startedAt
       /\ dispatchLog[j].at > conversations[c].id
       /\ dispatchLog[j].result = "ok"
       /\ \E q \in DOMAIN conversations[ConvIndex(conversations, send.convId)].messages :
            LET msg == conversations[ConvIndex(conversations, send.convId)].messages[q]
            IN msg.id = dispatchLog[j].id /\ msg.sent /\ msg.emailMessageId = dispatchLog[j].messageId

====
